---- MODULE Spec2Model ----
(***************************************************************************)
(* Model of src/app.py: the paperless-ngx OCR companion.  One asyncio      *)
(* event loop runs the startup/shutdown hooks and the webhook handlers;    *)
(* a handler runs without interruption between two awaits, so every action *)
(* below is the code between one suspension point and the next.            *)
(* Strings are sequences of one-character strings; an optional value       *)
(* (Python's None or a value) is a record [some, val].                     *)
(***************************************************************************)
EXTENDS Integers, Sequences, FiniteSets, TLC

\* ------------------------------------------------------------------------
\* Program constants
MAX_TITLE_LENGTH == 80
LLM_INPUT_CHAR_LIMIT == 4000
LLM_FORMAT_INPUT_CHAR_LIMIT == 6000

\* ------------------------------------------------------------------------
\* Bounds of the model
MaxPages == 2

\* the webhook invocations, and the value of loop when no handler runs
Reqs == {"r1", "r2"}
NoOne == "none"

\* ------------------------------------------------------------------------
\* Strings and optional values
WS == {" ", "\n", "\t"}

None == [some |-> FALSE, val |-> <<>>]
Some(x) == [some |-> TRUE, val |-> x]

\* Python truthiness of an optional string: not None and not empty
Truthy(o) == o.some /\ Len(o.val) > 0

Rep(c, k) == [i \in 1..k |-> c]

\* s[:n]
Take(s, n) == IF Len(s) <= n THEN s ELSE SubSeq(s, 1, n)

\* str.strip()
Strip(s) ==
    LET keep == {i \in 1..Len(s) : s[i] \notin WS}
    IN  IF keep = {} THEN <<>>
        ELSE LET lo == CHOOSE i \in keep : \A j \in 1..(i - 1) : s[j] \in WS
                 hi == CHOOSE i \in keep : \A j \in (i + 1)..Len(s) : s[j] \in WS
             IN  SubSeq(s, lo, hi)

RECURSIVE JoinNl(_)
JoinNl(texts) ==
    IF Len(texts) = 0 THEN <<>>
    ELSE IF Len(texts) = 1 THEN texts[1]
    ELSE texts[1] \o <<"\n">> \o JoinNl(Tail(texts))

\* ------------------------------------------------------------------------
\* DocumentID extractor.  A URL is a sequence of tokens: "/", the word
\* "documents", one-digit strings, and other words.
Digits == {"0", "1", "2", "3", "4", "5", "6", "7", "8", "9"}

DigitVal(d) ==
    CASE d = "0" -> 0 [] d = "1" -> 1 [] d = "2" -> 2 [] d = "3" -> 3
      [] d = "4" -> 4 [] d = "5" -> 5 [] d = "6" -> 6 [] d = "7" -> 7
      [] d = "8" -> 8 [] d = "9" -> 9

\* int(match.group(1))
RECURSIVE ToInt(_)
ToInt(ds) ==
    IF Len(ds) = 0 THEN 0
    ELSE 10 * ToInt(SubSeq(ds, 1, Len(ds) - 1)) + DigitVal(ds[Len(ds)])

\* the end j of a match of r"/documents/(\d+)/" that starts at i, or 0
MatchEnd(u, i) ==
    IF /\ i + 4 <= Len(u)
       /\ u[i] = "/" /\ u[i + 1] = "documents" /\ u[i + 2] = "/"
       /\ u[i + 3] \in Digits
    THEN LET ends == {j \in (i + 3)..(Len(u) - 1) :
                        /\ \A k \in (i + 3)..j : u[k] \in Digits
                        /\ u[j + 1] = "/"}
         IN  IF ends = {} THEN 0 ELSE CHOOSE j \in ends : TRUE
    ELSE 0

_extract_doc_id(doc_url) ==
    IF ~Truthy(doc_url) THEN None
    ELSE LET u == doc_url.val
             starts == {i \in 1..Len(u) : MatchEnd(u, i) # 0}
         IN  IF starts = {} THEN None
             ELSE LET i == CHOOSE a \in starts : \A b \in starts : a <= b
                  IN  Some(ToInt(SubSeq(u, i + 3, MatchEnd(u, i))))

\* Variant of NotDocId that tests `doc_id is None`.
NotDocIdNoneOnly(d) == ~d.some

\* `not doc_id`: None or 0
NotDocId(d) == ~d.some \/ d.val = 0

\* body.get("doc_url") or body.get("url")
DocUrlOf(body) == IF Truthy(body.doc_url) THEN body.doc_url ELSE body.url

\* ------------------------------------------------------------------------
\* Rasterizer
_is_pdf(doc) == doc.content_type_pdf \/ doc.magic_pdf

\* the number of page images, or -1 when the decoder raises
_images_from_bytes(doc) ==
    IF _is_pdf(doc) THEN doc.pdf_pages
    ELSE IF doc.image_ok THEN 1 ELSE -1

\* ------------------------------------------------------------------------
\* OCR adapter: the loops of _ocr_image over one engine result.  The result
\* is a sequence of lines; a line is None or a sequence of recognised texts.
RECURSIVE CleanLine(_)
CleanLine(txts) ==
    IF Len(txts) = 0 THEN <<>>
    ELSE LET cleaned == Strip(txts[1])
         IN  (IF Len(cleaned) > 0 THEN <<cleaned>> ELSE <<>>)
                 \o CleanLine(Tail(txts))

RECURSIVE CleanResult(_)
CleanResult(result) ==
    IF Len(result) = 0 THEN <<>>
    ELSE CleanLine(result[1].val) \o CleanResult(Tail(result))

\* iterating a line that is None raises TypeError
ResultIterable(result) == \A i \in 1..Len(result) : result[i].some

\* ------------------------------------------------------------------------
\* Content assembler
\* Variant of _build_content that joins with the empty string.
RECURSIVE BuildContentNoSeparator(_)
BuildContentNoSeparator(texts) ==
    IF Len(texts) = 0 THEN <<>>
    ELSE texts[1] \o BuildContentNoSeparator(Tail(texts))

_build_content(texts) == JoinNl(texts)

_build_title(texts) ==
    LET nonempty == {i \in 1..Len(texts) : Len(texts[i]) > 0}
    IN  IF nonempty = {} THEN None
        ELSE LET i == CHOOSE a \in nonempty : \A b \in nonempty : a <= b
             IN  Some(Take(texts[i], MAX_TITLE_LENGTH))

\* ------------------------------------------------------------------------
\* LLM stages: what the two functions return once the completion call has
\* ended with outcome resp.  Every outcome but "ok" raises inside the try
\* block and is caught there.  raise_for_status() raises for every status
\* that is not 2xx.
LlmFailures == {"transport_error", "timeout", "non2xx", "malformed"}

\* Variant of TitleFromResponse that does not truncate the title.
TitleFromResponseUntruncated(resp) ==
    IF resp.kind # "ok" THEN None
    ELSE LET title == Strip(resp.content)
         IN  IF Len(title) = 0 THEN None ELSE Some(title)

\* lines 166-172
TitleFromResponse(resp) ==
    IF resp.kind # "ok" THEN None
    ELSE LET title == Strip(resp.content)
         IN  IF Len(title) = 0 THEN None
             ELSE Some(Take(title, MAX_TITLE_LENGTH))

Max(a, b) == IF a >= b THEN a ELSE b

\* Variant of RatioRejected that also rejects the two boundary ratios.
RatioRejectedAtBoundary(formatted, text) ==
    \/ 2 * Len(formatted) <= Max(Len(text), 1)
    \/ Len(formatted) >= 2 * Max(Len(text), 1)

\* ratio < 0.5 or ratio > 2.0, for ratio = len(formatted) / max(len(text), 1).
\* The quotient of two integers below 2^53 is correctly rounded, so it is
\* below 0.5 exactly when 2 * len(formatted) < max(len(text), 1) and above
\* 2.0 exactly when len(formatted) > 2 * max(len(text), 1).
RatioRejected(formatted, text) ==
    \/ 2 * Len(formatted) < Max(Len(text), 1)
    \/ Len(formatted) > 2 * Max(Len(text), 1)

\* lines 215-228
FormatFromResponse(text, resp) ==
    IF resp.kind # "ok" THEN None
    ELSE LET formatted == Strip(resp.content)
         IN  IF Len(formatted) = 0 THEN None
             ELSE IF RatioRejected(formatted, text) THEN None
             ELSE Some(formatted)

\* ------------------------------------------------------------------------
\* The inputs the environment may supply
U7 == <<"x", "/", "api", "/", "documents", "/", "7", "/">>
U12 == <<"/", "documents", "/", "x", "/", "documents", "/", "1", "2", "/",
         "download", "/", "documents", "/", "3", "/">>
U0 == <<"x", "/", "documents", "/", "0", "/">>
UNoMatch == <<"x", "/", "documents", "/", "7">>

Body(kind, doc_url, url) == [kind |-> kind, doc_url |-> doc_url, url |-> url]

Bodies ==
    { Body("object", Some(U7), None),
      Body("object", Some(<<>>), Some(U12)),
      Body("object", None, None),
      Body("object", Some(UNoMatch), Some(U7)),
      Body("object", None, Some(U0)),
      Body("not_json", None, None),
      Body("not_object", None, None) }

\* what a 2xx download carries: the declared content type, the magic bytes,
\* and what the decoders make of the bytes (pdf_pages = -1: no PDF decode)
Documents ==
    { d \in [content_type_pdf : BOOLEAN, magic_pdf : BOOLEAN,
             pdf_pages : -1..MaxPages, image_ok : BOOLEAN] :
        /\ d.magic_pdf => ~d.image_ok
        /\ ~d.magic_pdf => d.pdf_pages = -1 }

TLong == Rep("x", MAX_TITLE_LENGTH + 5)
TPadded == <<" ", "a", "b", " ">>
TBlank == <<" ", "\t">>
TShort == <<"c", "d">>

OcrOut(raises, result) == [raises |-> raises, result |-> result]

\* what ocr_engine.ocr() may do on one page image
OcrOutputs ==
    { OcrOut(TRUE, <<>>),
      OcrOut(FALSE, <<None>>),
      OcrOut(FALSE, <<Some(<<>>)>>),
      OcrOut(FALSE, <<Some(<<TBlank, TLong, TPadded>>)>>),
      OcrOut(FALSE, <<Some(<<TShort>>)>>) }

LlmResp(kind, content) == [kind |-> kind, content |-> content]

\* message contents a completion may carry ("" also stands for null)
LlmContents ==
    { <<>>, <<"T">>, <<" ", "T", "i", " ">>,
      Rep("f", 4), <<" ">> \o Rep("f", 5) \o <<"\n">>,
      Rep("t", MAX_TITLE_LENGTH + 3),
      Rep("f", 2 * (MAX_TITLE_LENGTH + 8)),
      Rep("f", 2 * (MAX_TITLE_LENGTH + 8) + 1) }

LlmResponses ==
    {LlmResp(k, <<>>) : k \in LlmFailures}
        \cup {LlmResp("ok", c) : c \in LlmContents}

BackendFailures == {"transport_error", "non2xx"}

\* The environments the model is run in: "any" supplies every input above,
\* "few" a handful of them, "long" documents whose text is longer than the
\* formatter's input limit.
TPage == Rep("x", LLM_FORMAT_INPUT_CHAR_LIMIT + 100)

BodiesIn(w) ==
    IF w = "any" THEN Bodies
    ELSE IF w = "few"
    THEN {Body("object", Some(U7), None), Body("object", Some(<<>>), Some(U12))}
    ELSE {Body("object", Some(U7), None)}

OcrOutputsIn(w) ==
    IF w = "any" THEN OcrOutputs
    ELSE IF w = "few"
    THEN {OcrOut(TRUE, <<>>), OcrOut(FALSE, <<Some(<<TShort>>)>>)}
    ELSE {OcrOut(FALSE, <<Some(<<TPage>>)>>), OcrOut(FALSE, <<Some(<<TShort>>)>>)}

LlmContentsIn(w) ==
    IF w = "any" THEN LlmContents
    ELSE IF w = "few" THEN {<<"T">>, Rep("f", 4)}
    ELSE {<<"T">>, Rep("f", LLM_FORMAT_INPUT_CHAR_LIMIT \div 2),
          Rep("f", LLM_FORMAT_INPUT_CHAR_LIMIT \div 2 - 1)}

LlmResponsesIn(w) ==
    {LlmResp(k, <<>>) : k \in LlmFailures}
        \cup {LlmResp("ok", c) : c \in LlmContentsIn(w)}

\* ------------------------------------------------------------------------
\* State
VARIABLES
    PAPERLESS_BASE_URL,     \* "" or the configured base URL
    PAPERLESS_API_TOKEN,    \* "" or the configured token
    LLM_ENABLED,
    LLM_API_KEY,            \* "" or the configured key
    LLM_FORMAT_CONTENT,
    client,                 \* "None", "open" or "closed"
    ocr_engine,             \* "None" or "ready"
    life,                   \* position of the startup and shutdown hooks
    loop,                   \* the handler that runs on the event loop
    inv,                    \* the webhook invocations
    hz,                     \* the /healthz request
    world                   \* which inputs the environment supplies

config == <<PAPERLESS_BASE_URL, PAPERLESS_API_TOKEN, LLM_ENABLED, LLM_API_KEY,
            LLM_FORMAT_CONTENT>>
vars == <<PAPERLESS_BASE_URL, PAPERLESS_API_TOKEN, LLM_ENABLED, LLM_API_KEY,
          LLM_FORMAT_CONTENT, client, ocr_engine, life, loop, inv, hz, world>>

Call(kind, doc_id, text, title) ==
    [kind |-> kind, doc_id |-> doc_id, text |-> text, title |-> title]

NewInvocation(pc) ==
    [ pc |-> pc,
      body |-> None,            \* the body the request carries
      ready |-> FALSE,          \* whether the client was there on arrival
      doc_id |-> None,
      calls |-> <<>>,           \* the outbound requests sent, in order
      dl |-> "none",            \* how the download went
      rast |-> "none",          \* "none", "ok" or "failed"
      pages |-> 0,              \* page images made by the rasterizer
      pages_left |-> 0,         \* images the OCR loop has yet to visit
      page_texts |-> <<>>,      \* what _ocr_image returned, page by page
      ocr |-> "none",           \* "none", "running", "ok", "not_init", "failed"
      texts |-> <<>>,
      assembled |-> None,       \* the content as _build_content made it
      content |-> <<>>,
      fmt |-> "none",           \* how the formatting stage went
      fmt_resp |-> None,        \* the message content the formatter got
      fmt_out |-> None,         \* what _format_content_with_llm returned
      ttl |-> "none",           \* how the title stage went
      ttl_resp |-> None,        \* the message content the title stage got
      ttl_out |-> None,         \* what _generate_title_with_llm returned
      title |-> None,
      upd |-> "none",           \* how the update went
      status |-> 0,             \* the HTTP status of the response, once sent
      exc |-> "",               \* the exception the try block raised, if any
      resp_doc_id |-> None ]

\* the /healthz request, not yet made
NewHealthz == [pc |-> "idle", status |-> 0, body |-> ""]

ConfigInit ==
    /\ PAPERLESS_BASE_URL \in {"", "http://paperless"}
    /\ PAPERLESS_API_TOKEN \in {"", "token"}
    /\ LLM_ENABLED \in BOOLEAN
    /\ LLM_API_KEY \in {"", "key"}
    /\ LLM_FORMAT_CONTENT \in BOOLEAN

ProcessInit ==
    /\ client = "None"
    /\ ocr_engine = "None"
    /\ life = "init"
    /\ loop = NoOne

\* one webhook request, under any configuration
Init ==
    /\ ConfigInit
    /\ ProcessInit
    /\ inv = [r \in Reqs |-> NewInvocation(IF r = "r1" THEN "idle" ELSE "unused")]
    /\ hz = NewHealthz
    /\ world = "any"

\* ------------------------------------------------------------------------
\* Startup and shutdown hooks
\* _startup up to its await: the client is made, the engine is being built
StartupBegin ==
    /\ life = "init" /\ loop = NoOne
    /\ client' = "open"
    /\ life' = "startup_await"
    /\ UNCHANGED <<config, world, hz, ocr_engine, loop, inv>>

\* _startup resumes with the engine the executor built
StartupEnd ==
    /\ life = "startup_await" /\ loop = NoOne
    /\ ocr_engine' = "ready"
    /\ life' = "up"
    /\ UNCHANGED <<config, world, hz, client, loop, inv>>

\* _shutdown up to its await: aclose() marks the client closed at once
ShutdownBegin ==
    /\ life = "up" /\ loop = NoOne
    /\ IF client # "None"
       THEN client' = "closed" /\ life' = "shutdown_await"
       ELSE client' = client /\ life' = "down"
    /\ UNCHANGED <<config, world, hz, ocr_engine, loop, inv>>

ShutdownEnd ==
    /\ life = "shutdown_await" /\ loop = NoOne
    /\ client' = "None"
    /\ life' = "down"
    /\ UNCHANGED <<config, world, hz, ocr_engine, loop, inv>>

\* ------------------------------------------------------------------------
\* The webhook handler.  The operators below take the invocation record v
\* and give the record at the next suspension point or at the response.

\* the handler ends with the given HTTP status
Respond(v, code) == [v EXCEPT !.pc = "done", !.status = code]

\* Variant of Raise without the first except clause: every exception is
\* answered with 500.
RaiseAlways500(v, exc) == Respond(v, 500)

\* Variant of Raise whose first clause catches httpx.HTTPError, which also
\* covers the transport errors.
RaiseHttpError502(v, exc) ==
    Respond(v, IF exc \in {"HTTPStatusError", "TransportError"} THEN 502 ELSE 500)

\* lines 317-322: an exception raised inside the try block.  Only
\* httpx.HTTPStatusError takes the first clause; HTTPException, RuntimeError,
\* TypeError, the decoders' errors and httpx's transport errors take the second
Raise(v, exc) ==
    Respond([v EXCEPT !.exc = exc], IF exc = "HTTPStatusError" THEN 502 ELSE 500)

\* a send on the shared client: None has no .get/.post/.patch and a closed
\* client refuses the request, both before anything is on the wire
ClientSends == client = "open"

ConfigMissing == PAPERLESS_BASE_URL = "" \/ PAPERLESS_API_TOKEN = ""

\* _update_document up to its await; what it raises there is caught at
\* line 320 and answered with 500
_update_document(v, title) ==
    LET w == [v EXCEPT !.title = title]
        payload_title == IF Truthy(title) THEN title ELSE None
    IN  IF client = "None"
        THEN Raise([w EXCEPT !.upd = "not_ready"], "HTTPException")
        ELSE IF ConfigMissing
        THEN Raise([w EXCEPT !.upd = "config"], "HTTPException")
        ELSE IF ~ClientSends
        THEN Raise([w EXCEPT !.upd = "closed"], "RuntimeError")
        ELSE [w EXCEPT !.pc = "await_patch", !.upd = "sent",
                       !.calls = Append(@, Call("PATCH", v.doc_id.val,
                                                v.content, payload_title))]

\* Variant of TitleDecide that prefers the fallback title to the LLM title.
TitleDecideFallbackFirst(v, llm_title) ==
    LET w == [v EXCEPT !.ttl_out = llm_title]
        fallback == _build_title(v.texts)
    IN  _update_document(w, IF Truthy(fallback) THEN fallback ELSE llm_title)

\* lines 305-316: the LLM title if there is one, else the fallback title
TitleDecide(v, llm_title) ==
    LET w == [v EXCEPT !.ttl_out = llm_title]
    IN  _update_document(w, IF Truthy(llm_title) THEN llm_title
                            ELSE _build_title(v.texts))

\* _generate_title_with_llm up to its await
_generate_title_with_llm(v) ==
    IF ~LLM_ENABLED THEN TitleDecide([v EXCEPT !.ttl = "off"], None)
    ELSE IF LLM_API_KEY = "" THEN TitleDecide([v EXCEPT !.ttl = "nokey"], None)
    ELSE IF Len(Strip(v.content)) = 0
    THEN TitleDecide([v EXCEPT !.ttl = "empty"], None)
    ELSE IF ~ClientSends THEN TitleDecide([v EXCEPT !.ttl = "noclient"], None)
    ELSE [v EXCEPT !.pc = "await_title", !.ttl = "sent",
                   !.calls = Append(@, Call("LLM_TITLE", v.doc_id.val,
                                     Take(v.content, LLM_INPUT_CHAR_LIMIT), None))]

\* Variant of FormatDecide that hands the assembled content to the title
\* stage even when the formatter returned a text.
FormatDecideKeepsAssembled(v, formatted) ==
    _generate_title_with_llm([v EXCEPT !.fmt_out = formatted])

\* lines 297-304: the formatted content if there is one, then the title stage
FormatDecide(v, formatted) ==
    LET w == [v EXCEPT !.fmt_out = formatted,
                       !.content = IF Truthy(formatted) THEN formatted.val ELSE @]
    IN  _generate_title_with_llm(w)

\* the text _format_content_with_llm sends
FormatInput(content) == Take(Strip(content), LLM_FORMAT_INPUT_CHAR_LIMIT)

\* Variant of _format_content_with_llm without the test of the API key.
FormatWithoutKeyCheck(v) ==
    IF ~LLM_ENABLED \/ ~LLM_FORMAT_CONTENT
    THEN FormatDecide([v EXCEPT !.fmt = "off"], None)
    ELSE IF Len(Strip(v.content)) = 0
    THEN FormatDecide([v EXCEPT !.fmt = "empty"], None)
    ELSE IF ~ClientSends THEN FormatDecide([v EXCEPT !.fmt = "noclient"], None)
    ELSE [v EXCEPT !.pc = "await_fmt", !.fmt = "sent",
                   !.calls = Append(@, Call("LLM_FORMAT", v.doc_id.val,
                                            FormatInput(v.content), None))]

\* _format_content_with_llm up to its await
_format_content_with_llm(v) ==
    IF ~LLM_ENABLED \/ ~LLM_FORMAT_CONTENT
    THEN FormatDecide([v EXCEPT !.fmt = "off"], None)
    ELSE IF LLM_API_KEY = "" THEN FormatDecide([v EXCEPT !.fmt = "nokey"], None)
    ELSE IF Len(Strip(v.content)) = 0
    THEN FormatDecide([v EXCEPT !.fmt = "empty"], None)
    ELSE IF ~ClientSends THEN FormatDecide([v EXCEPT !.fmt = "noclient"], None)
    ELSE [v EXCEPT !.pc = "await_fmt", !.fmt = "sent",
                   !.calls = Append(@, Call("LLM_FORMAT", v.doc_id.val,
                                            FormatInput(v.content), None))]

\* Variant of _download_document without the test of the configuration.
DownloadWithoutConfigCheck(v) ==
    IF client = "None" THEN Raise([v EXCEPT !.dl = "not_ready"], "HTTPException")
    ELSE IF ~ClientSends THEN Raise([v EXCEPT !.dl = "closed"], "RuntimeError")
    ELSE [v EXCEPT !.pc = "await_get", !.dl = "sent",
                   !.calls = Append(@, Call("GET", v.doc_id.val, <<>>, None))]

\* _download_document up to its await
_download_document(v) ==
    IF client = "None" THEN Raise([v EXCEPT !.dl = "not_ready"], "HTTPException")
    ELSE IF ConfigMissing THEN Raise([v EXCEPT !.dl = "config"], "HTTPException")
    ELSE IF ~ClientSends THEN Raise([v EXCEPT !.dl = "closed"], "RuntimeError")
    ELSE [v EXCEPT !.pc = "await_get", !.dl = "sent",
                   !.calls = Append(@, Call("GET", v.doc_id.val, <<>>, None))]

\* Variant of WebhookEnter that makes the shared client itself when it
\* finds none.
WebhookEnterCreatesClient(r, body) ==
    /\ inv[r].pc = "idle" /\ loop = NoOne
    /\ inv' = [inv EXCEPT ![r] =
                  [@ EXCEPT !.body = Some(body), !.ready = TRUE, !.pc = "await_json"]]
    /\ client' = IF client = "None" THEN "open" ELSE client
    /\ UNCHANGED <<config, world, hz, ocr_engine, life, loop>>

\* lines 279-281: a request with the given body arrives
WebhookEnter(r, body) ==
    /\ inv[r].pc = "idle" /\ loop = NoOne
    /\ LET v == [inv[r] EXCEPT !.body = Some(body), !.ready = (client # "None")]
       IN  inv' = [inv EXCEPT ![r] =
                     IF client = "None" THEN Respond(v, 503)
                     ELSE [v EXCEPT !.pc = "await_json"]]
    /\ UNCHANGED <<config, world, hz, client, ocr_engine, life, loop>>

\* lines 281-289: the body is read, the id extracted, the download started.
\* A body that is no JSON, or no JSON object, raises outside the try block.
BodyReceived(r) ==
    /\ inv[r].pc = "await_json" /\ loop = NoOne
    /\ LET v == inv[r]
           body == v.body.val
           doc_id == _extract_doc_id(DocUrlOf(body))
       IN  inv' = [inv EXCEPT ![r] =
                     IF body.kind # "object" THEN Respond(v, 500)
                     ELSE IF NotDocId(doc_id)
                     THEN Respond([v EXCEPT !.doc_id = doc_id], 400)
                     ELSE _download_document([v EXCEPT !.doc_id = doc_id])]
    /\ UNCHANGED <<config, world, hz, client, ocr_engine, life, loop>>

DownloadResponses ==
    { [kind |-> k, doc |-> None] : k \in BackendFailures }
        \cup { [kind |-> "ok", doc |-> Some(d)] : d \in Documents }

\* lines 82-85 and 290-291: the download returns; a 2xx body is rasterized
\* and the handler goes on to the OCR loop without leaving the event loop
GetReturns(r, resp) ==
    /\ inv[r].pc = "await_get" /\ loop = NoOne
    /\ LET v == inv[r]
           n == _images_from_bytes(resp.doc.val)
       IN  IF resp.kind = "transport_error"
           THEN /\ inv' = [inv EXCEPT ![r] =
                             Raise([v EXCEPT !.dl = "error"], "TransportError")]
                /\ loop' = loop
           ELSE IF resp.kind = "non2xx"
           THEN /\ inv' = [inv EXCEPT ![r] =
                             Raise([v EXCEPT !.dl = "non2xx"], "HTTPStatusError")]
                /\ loop' = loop
           ELSE IF n < 0
           THEN /\ inv' = [inv EXCEPT ![r] =
                             Raise([v EXCEPT !.dl = "ok", !.rast = "failed"],
                                   "DecodeError")]
                /\ loop' = loop
           ELSE /\ inv' = [inv EXCEPT ![r] =
                             [v EXCEPT !.dl = "ok", !.rast = "ok", !.pages = n,
                                       !.pages_left = n, !.ocr = "running",
                                       !.pc = "ocr"]]
                /\ loop' = r
    /\ UNCHANGED <<config, world, hz, client, ocr_engine, life>>

\* Variant of OcrPage that swallows a failure of one page and goes on with
\* the next image.
OcrPageSkipsFailure(r, out) ==
    /\ inv[r].pc = "ocr" /\ loop = r
    /\ inv[r].pages_left > 0
    /\ LET v == inv[r]
       IN  IF ocr_engine = "None" \/ out.raises \/ ~ResultIterable(out.result)
           THEN inv' = [inv EXCEPT ![r] = [v EXCEPT !.pages_left = @ - 1]]
           ELSE inv' = [inv EXCEPT ![r] =
                          [v EXCEPT !.texts = @ \o CleanResult(out.result),
                                    !.page_texts = Append(@, CleanResult(out.result)),
                                    !.pages_left = @ - 1]]
    /\ UNCHANGED <<config, world, hz, client, ocr_engine, life, loop>>

\* lines 292-293 and 100-110: one turn of the loop over the page images
OcrPage(r, out) ==
    /\ inv[r].pc = "ocr" /\ loop = r
    /\ inv[r].pages_left > 0
    /\ LET v == inv[r]
       IN  IF ocr_engine = "None"
           THEN /\ inv' = [inv EXCEPT ![r] =
                             Raise([v EXCEPT !.ocr = "not_init"], "RuntimeError")]
                /\ loop' = NoOne
           ELSE IF out.raises \/ ~ResultIterable(out.result)
           THEN /\ inv' = [inv EXCEPT ![r] =
                             Raise([v EXCEPT !.ocr = "failed"],
                                   IF out.raises THEN "EngineError" ELSE "TypeError")]
                /\ loop' = NoOne
           ELSE /\ inv' = [inv EXCEPT ![r] =
                             [v EXCEPT !.texts = @ \o CleanResult(out.result),
                                       !.page_texts = Append(@, CleanResult(out.result)),
                                       !.pages_left = @ - 1]]
                /\ loop' = loop
    /\ UNCHANGED <<config, world, hz, client, ocr_engine, life>>

\* lines 294-296: the loop is over, the content is assembled and the
\* formatter is called
Assemble(r) ==
    /\ inv[r].pc = "ocr" /\ loop = r
    /\ inv[r].pages_left = 0
    /\ LET content == _build_content(inv[r].texts)
       IN  inv' = [inv EXCEPT ![r] =
                     _format_content_with_llm(
                         [@ EXCEPT !.ocr = "ok", !.assembled = Some(content),
                                   !.content = content])]
    /\ loop' = NoOne
    /\ UNCHANGED <<config, world, hz, client, ocr_engine, life>>

LlmClass(resp) == IF resp.kind = "ok" THEN "ok" ELSE "failed"

\* Variant of FormatReturns without the try block: a failed call raises
\* into the handler.
FormatReturnsUncaught(r, resp) ==
    /\ inv[r].pc = "await_fmt" /\ loop = NoOne
    /\ LET v == [inv[r] EXCEPT !.fmt = LlmClass(resp),
                               !.fmt_resp = IF resp.kind = "ok"
                                            THEN Some(resp.content) ELSE None]
           text == v.calls[Len(v.calls)].text
       IN  inv' = [inv EXCEPT ![r] =
                     IF resp.kind = "non2xx" THEN Raise(v, "HTTPStatusError")
                     ELSE IF resp.kind # "ok" THEN Raise(v, "TransportError")
                     ELSE FormatDecide(v, FormatFromResponse(text, resp))]
    /\ UNCHANGED <<config, world, hz, client, ocr_engine, life, loop>>

\* lines 213-233: the formatting call returns
FormatReturns(r, resp) ==
    /\ inv[r].pc = "await_fmt" /\ loop = NoOne
    /\ LET v == [inv[r] EXCEPT !.fmt = LlmClass(resp),
                               !.fmt_resp = IF resp.kind = "ok"
                                            THEN Some(resp.content) ELSE None]
           text == v.calls[Len(v.calls)].text
       IN  inv' = [inv EXCEPT ![r] = FormatDecide(v, FormatFromResponse(text, resp))]
    /\ UNCHANGED <<config, world, hz, client, ocr_engine, life, loop>>

\* lines 164-177: the title call returns
TitleReturns(r, resp) ==
    /\ inv[r].pc = "await_title" /\ loop = NoOne
    /\ LET v == [inv[r] EXCEPT !.ttl = LlmClass(resp),
                               !.ttl_resp = IF resp.kind = "ok"
                                            THEN Some(resp.content) ELSE None]
       IN  inv' = [inv EXCEPT ![r] = TitleDecide(v, TitleFromResponse(resp))]
    /\ UNCHANGED <<config, world, hz, client, ocr_engine, life, loop>>

UpdateResponses == BackendFailures \cup {"ok"}

\* Variant of PatchReturns that sends the update a second time when the
\* first attempt fails in transport.
PatchReturnsRetries(r, kind) ==
    /\ inv[r].pc = "await_patch" /\ loop = NoOne
    /\ LET v == inv[r]
           last == v.calls[Len(v.calls)]
           first_try == Len(v.calls) < 2 \/ v.calls[Len(v.calls) - 1].kind # "PATCH"
       IN  inv' = [inv EXCEPT ![r] =
                     IF kind = "transport_error" /\ first_try
                     THEN [v EXCEPT !.calls = Append(@, last)]
                     ELSE IF kind = "transport_error"
                     THEN Raise([v EXCEPT !.upd = "error"], "TransportError")
                     ELSE IF kind = "non2xx"
                     THEN Raise([v EXCEPT !.upd = "non2xx"], "HTTPStatusError")
                     ELSE Respond([v EXCEPT !.upd = "ok", !.resp_doc_id = v.doc_id], 200)]
    /\ UNCHANGED <<config, world, hz, client, ocr_engine, life, loop>>

\* Variant of PatchReturns without raise_for_status: any answer of the
\* backend counts as success.
PatchReturnsIgnoresStatus(r, kind) ==
    /\ inv[r].pc = "await_patch" /\ loop = NoOne
    /\ LET v == inv[r]
       IN  inv' = [inv EXCEPT ![r] =
                     IF kind = "transport_error"
                     THEN Raise([v EXCEPT !.upd = "error"], "TransportError")
                     ELSE Respond([v EXCEPT !.upd = kind, !.resp_doc_id = v.doc_id], 200)]
    /\ UNCHANGED <<config, world, hz, client, ocr_engine, life, loop>>

\* lines 248-249 and 317-324: the update returns and the handler responds
PatchReturns(r, kind) ==
    /\ inv[r].pc = "await_patch" /\ loop = NoOne
    /\ LET v == inv[r]
       IN  inv' = [inv EXCEPT ![r] =
                     IF kind = "transport_error"
                     THEN Raise([v EXCEPT !.upd = "error"], "TransportError")
                     ELSE IF kind = "non2xx"
                     THEN Raise([v EXCEPT !.upd = "non2xx"], "HTTPStatusError")
                     ELSE Respond([v EXCEPT !.upd = "ok", !.resp_doc_id = v.doc_id], 200)]
    /\ UNCHANGED <<config, world, hz, client, ocr_engine, life, loop>>

\* Variant of Healthz that reports the process as not ready while the
\* client or the engine is missing.
HealthzChecksReadiness ==
    /\ hz.pc = "idle" /\ loop = NoOne
    /\ hz' = IF client = "None" \/ ocr_engine = "None"
             THEN [pc |-> "done", status |-> 503, body |-> "not ready"]
             ELSE [pc |-> "done", status |-> 200, body |-> "ok"]
    /\ UNCHANGED <<config, world, client, ocr_engine, life, loop, inv>>

\* lines 272-274: GET /healthz is answered
Healthz ==
    /\ hz.pc = "idle" /\ loop = NoOne
    /\ hz' = [pc |-> "done", status |-> 200, body |-> "ok"]
    /\ UNCHANGED <<config, world, client, ocr_engine, life, loop, inv>>

Next ==
    \/ StartupBegin
    \/ StartupEnd
    \/ ShutdownBegin
    \/ ShutdownEnd
    \/ Healthz
    \/ \E r \in Reqs : \E body \in BodiesIn(world) : WebhookEnter(r, body)
    \/ \E r \in Reqs : BodyReceived(r)
    \/ \E r \in Reqs : \E resp \in DownloadResponses : GetReturns(r, resp)
    \/ \E r \in Reqs : \E out \in OcrOutputsIn(world) : OcrPage(r, out)
    \/ \E r \in Reqs : Assemble(r)
    \/ \E r \in Reqs : \E resp \in LlmResponsesIn(world) : FormatReturns(r, resp)
    \/ \E r \in Reqs : \E resp \in LlmResponsesIn(world) : TitleReturns(r, resp)
    \/ \E r \in Reqs : \E kind \in UpdateResponses : PatchReturns(r, kind)

Spec == Init /\ [][Next]_vars

\* two webhook requests in flight at once, with the backend and the LLM
\* configured
InitConc ==
    /\ ConfigInit
    /\ PAPERLESS_BASE_URL # "" /\ PAPERLESS_API_TOKEN # ""
    /\ LLM_ENABLED /\ LLM_API_KEY # ""
    /\ ProcessInit
    /\ inv = [r \in Reqs |-> NewInvocation("idle")]
    /\ hz = NewHealthz
    /\ world = "few"

SpecConc == InitConc /\ [][Next]_vars

\* one webhook request for a long document, with the backend, the LLM and
\* the formatter configured
InitLong ==
    /\ ConfigInit
    /\ PAPERLESS_BASE_URL # "" /\ PAPERLESS_API_TOKEN # ""
    /\ LLM_ENABLED /\ LLM_API_KEY # "" /\ LLM_FORMAT_CONTENT
    /\ ProcessInit
    /\ inv = [r \in Reqs |-> NewInvocation(IF r = "r1" THEN "idle" ELSE "unused")]
    /\ hz = NewHealthz
    /\ world = "long"

SpecLong == InitLong /\ [][Next]_vars

\* ------------------------------------------------------------------------
\* Properties

CallsOf(v, kind) == {i \in 1..Len(v.calls) : v.calls[i].kind = kind}
Sent(v, kind) == CallsOf(v, kind) # {}
Done(v) == v.pc = "done"

DownloadFailed(v) == v.dl \in {"not_ready", "config", "closed", "error", "non2xx"}
OcrFailed(v) == v.ocr \in {"failed", "not_init"}
UpdateNotSent(v) == v.upd \in {"not_ready", "config", "closed"}

\* the first non-empty fragment cut to 80 characters, if there is one
FallbackTitle(texts) ==
    IF \A i \in 1..Len(texts) : texts[i] = <<>> THEN None
    ELSE LET i == CHOOSE a \in 1..Len(texts) :
                    /\ texts[a] # <<>>
                    /\ \A b \in 1..(a - 1) : texts[b] = <<>>
             f == texts[i]
         IN  Some([k \in 1..(IF Len(f) < 80 THEN Len(f) ELSE 80) |-> f[k]])

\* C1: no partial write.  An update (PATCH) is issued only after the download
\* returned 2xx, the rasterizer made the page images and every page image was
\* OCRed without failure; an invocation in which one of these stages failed
\* has issued no update.
C1_NoPartialWrite ==
    \A r \in Reqs :
        LET v == inv[r]
        IN  /\ Sent(v, "PATCH") =>
                 /\ v.dl = "ok" /\ v.rast = "ok" /\ v.ocr = "ok"
                 /\ v.pages_left = 0
                 /\ Len(v.page_texts) = v.pages
            /\ (DownloadFailed(v) \/ v.rast = "failed" \/ OcrFailed(v)) =>
                 ~Sent(v, "PATCH")

\* an update was sent for a document of two pages
C1_Witness ==
    \E r \in Reqs : Sent(inv[r], "PATCH") /\ inv[r].pages >= 2

\* the response an update outcome determines
StatusOfUpdate(upd) ==
    CASE upd = "ok" -> 200
      [] upd = "non2xx" -> 502
      [] OTHER -> 500

\* C2: LLM failures are absorbed.  Whatever the formatting call and the title
\* call return, the invocation goes on to the next stage and reaches the
\* update; a call that failed (transport error, timeout, non-2xx, malformed
\* response) or returned an empty message makes its function return absent;
\* the response of an invocation that made an LLM call is the one the outcome
\* of the update determines.
C2_LlmFailuresAbsorbed ==
    \A r \in Reqs :
        LET v == inv[r]
        IN  /\ v.fmt \in {"failed", "ok"} => v.ttl # "none"
            /\ v.ttl \in {"failed", "ok"} => v.upd # "none"
            /\ v.fmt = "failed" => ~v.fmt_out.some /\ v.content = v.assembled.val
            /\ v.ttl = "failed" => ~v.ttl_out.some
            /\ (v.fmt = "ok" /\ Strip(v.fmt_resp.val) = <<>>) => ~v.fmt_out.some
            /\ (v.ttl = "ok" /\ Strip(v.ttl_resp.val) = <<>>) => ~v.ttl_out.some
            /\ (Done(v) /\ (Sent(v, "LLM_FORMAT") \/ Sent(v, "LLM_TITLE"))) =>
                 v.status = StatusOfUpdate(v.upd)

\* both LLM calls failed and the invocation ended with the update's 200
C2_Witness ==
    \E r \in Reqs :
        /\ Done(inv[r]) /\ inv[r].fmt = "failed" /\ inv[r].ttl = "failed"
        /\ inv[r].status = 200

\* C3: a download that returns a non-2xx status is answered with 502 and no
\* update is issued in that invocation.
C3_DownloadNon2xx ==
    \A r \in Reqs :
        inv[r].dl = "non2xx" =>
            /\ Done(inv[r]) /\ inv[r].status = 502
            /\ ~Sent(inv[r], "PATCH")

C3_Witness == \E r \in Reqs : inv[r].dl = "non2xx"

\* C4: failure classification.  A finished invocation has status 502 exactly
\* when its download or its update returned a non-2xx status; once the id was
\* extracted every other failure (transport error, rasterizer error, OCR
\* error, engine not initialized, client gone) gives 500, and 200 is given
\* exactly when the update returned 2xx.
C4_FailureClassification ==
    \A r \in Reqs :
        LET v == inv[r]
        IN  Done(v) =>
              /\ v.status = 502 <=> (v.dl = "non2xx" \/ v.upd = "non2xx")
              /\ (v.doc_id.some /\ v.doc_id.val > 0) =>
                   /\ v.status \in {200, 500, 502}
                   /\ v.status = 200 <=> v.upd = "ok"
                   /\ (v.rast = "failed" \/ OcrFailed(v) \/ v.dl = "error"
                         \/ v.upd = "error") => v.status = 500

\* the update failed in transport after a failed title call: 500, not 502
C4_Witness ==
    \E r \in Reqs :
        /\ Done(inv[r]) /\ inv[r].upd = "error" /\ inv[r].ttl = "failed"
        /\ inv[r].status = 500

\* C5: title precedence.  The title of an update is the LLM title when the
\* title generator returned one, else the first non-empty OCR fragment cut to
\* 80 characters, else there is none; an invocation sends at most one update.
C5_TitlePrecedence ==
    \A r \in Reqs :
        LET v == inv[r]
        IN  /\ Cardinality(CallsOf(v, "PATCH")) <= 1
            /\ \A i \in CallsOf(v, "PATCH") :
                 v.calls[i].title =
                    IF v.ttl_out.some THEN v.ttl_out ELSE FallbackTitle(v.texts)

\* an update carried the LLM title although a fallback title existed
C5_Witness ==
    \E r \in Reqs :
        /\ inv[r].ttl_out.some /\ FallbackTitle(inv[r].texts).some
        /\ inv[r].ttl_out # FallbackTitle(inv[r].texts)
        /\ Sent(inv[r], "PATCH")

\* C6: the title of every update is either left out or a non-empty string of
\* at most 80 characters.
C6_TitleBounded ==
    \A r \in Reqs :
        \A i \in CallsOf(inv[r], "PATCH") :
            LET t == inv[r].calls[i].title
            IN  t.some => (Len(t.val) >= 1 /\ Len(t.val) <= 80)

\* an update carried an LLM title that was cut to 80 characters
C6_Witness ==
    \E r \in Reqs :
        /\ Sent(inv[r], "PATCH")
        /\ inv[r].ttl_out.some /\ Len(inv[r].ttl_out.val) = 80
        /\ Len(Strip(inv[r].ttl_resp.val)) > 80

\* the text the formatter sent to the completion service
FormatText(v) == v.calls[CHOOSE i \in CallsOf(v, "LLM_FORMAT") : TRUE].text

RatioAccepted(n, m) == n <= 2 * m /\ m <= 2 * n

\* C7 as stated: with n the length of the formatter input and m the length
\* of the LLM output as received, the formatter returns an output exactly
\* when n <= 2*m and m <= 2*n.
C7_RawLengthGuardrail ==
    \A r \in Reqs :
        LET v == inv[r]
        IN  v.fmt = "ok" =>
              ( v.fmt_out.some <=>
                  RatioAccepted(Len(FormatText(v)), Len(v.fmt_resp.val)) )

\* C7: the length-ratio guardrail, on the trimmed output.  With n >= 1 the
\* length of the formatter input and m the length of the LLM output after
\* trimming, the formatter returns the trimmed output if n <= 2*m and
\* m <= 2*n, both bounds accepted, and this becomes the content; otherwise it
\* returns absent, the content stays as assembled, and the invocation goes on
\* to the title stage and ends as its update decides.  For an input of 1000
\* characters an output of 400 is rejected and an output of 600 accepted.
C7_TrimmedLengthGuardrail ==
    /\ \A r \in Reqs :
        LET v == inv[r]
            out == Strip(v.fmt_resp.val)
        IN  v.fmt = "ok" =>
              /\ Len(FormatText(v)) >= 1
              /\ IF RatioAccepted(Len(FormatText(v)), Len(out))
                 THEN v.fmt_out = Some(out) /\ v.content = out
                 ELSE ~v.fmt_out.some /\ v.content = v.assembled.val
              /\ v.ttl # "none"
              /\ Done(v) => v.status = StatusOfUpdate(v.upd)
    /\ RatioRejected(Rep("f", 400), Rep("x", 1000))
    /\ ~RatioRejected(Rep("f", 600), Rep("x", 1000))

\* an output of exactly half the input's length was accepted
C7_Witness ==
    \E r \in Reqs :
        /\ inv[r].fmt = "ok" /\ inv[r].fmt_out.some
        /\ Len(FormatText(inv[r])) = 2 * Len(inv[r].fmt_out.val)

\* bodies of the three kinds C8 names: no doc_url/url field, a string that
\* does not match, an id that is not positive
NoIdBodies ==
    { Body("object", None, None),
      Body("object", Some(UNoMatch), Some(U7)),
      Body("object", None, Some(U0)) }

NoIo(v) == v.calls = <<>> /\ v.ocr = "none" /\ v.page_texts = <<>>

\* C8 as stated: a request from which no id can be extracted is answered
\* with 400 and makes no backend call, no OCR and no LLM call.
C8_NoIdIs400 ==
    \A r \in Reqs :
        LET v == inv[r]
        IN  (Done(v) /\ v.body.some /\ v.body.val \in NoIdBodies) =>
              v.status = 400 /\ NoIo(v)

\* C8: a request from which no id can be extracted makes no backend call,
\* no OCR and no LLM call, and is answered with 400 when the HTTP client was
\* initialized on arrival and with 503 when it was not.
C8_NoIdRejected ==
    \A r \in Reqs :
        LET v == inv[r]
        IN  (v.body.some /\ v.body.val \in NoIdBodies) =>
              /\ NoIo(v)
              /\ Done(v) => v.status = (IF v.ready THEN 400 ELSE 503)

\* a request whose id is 0 was answered with 400
C8_Witness ==
    \E r \in Reqs :
        /\ Done(inv[r]) /\ inv[r].status = 400
        /\ inv[r].body = Some(Body("object", None, Some(U0)))

\* the invocation met a client or an engine that was not initialized
NotReady(v) ==
    \/ Done(v) /\ v.status = 503
    \/ v.dl = "not_ready"
    \/ v.upd = "not_ready"
    \/ v.ocr = "not_init"

\* C9: an invocation that finds the HTTP client or the OCR engine not
\* initialized fails with 503 or 500 and has performed no I/O: no download,
\* no LLM call, no update.
C9_NotReadyNoIo ==
    \A r \in Reqs :
        NotReady(inv[r]) =>
            /\ Done(inv[r]) /\ inv[r].status \in {503, 500}
            /\ inv[r].calls = <<>>

\* the fragments of an invocation: the pages' fragments, pages in page order
RECURSIVE Fragments(_)
Fragments(page_texts) ==
    IF Len(page_texts) = 0 THEN <<>>
    ELSE Fragments(SubSeq(page_texts, 1, Len(page_texts) - 1))
            \o page_texts[Len(page_texts)]

RECURSIVE JoinedByNewline(_)
JoinedByNewline(fs) ==
    IF Len(fs) = 0 THEN <<>>
    ELSE IF Len(fs) = 1 THEN fs[1]
    ELSE JoinedByNewline(SubSeq(fs, 1, Len(fs) - 1)) \o <<"\n">> \o fs[Len(fs)]

FirstChars(f, k) == [i \in 1..(IF Len(f) < k THEN Len(f) ELSE k) |-> f[i]]

\* the document id the request names
RequestedId(body) ==
    IF body = Body("object", Some(U7), None) THEN 7 ELSE 12

\* C10 as stated, for an invocation that found the HTTP client open when it
\* came to the update: with LLM disabled, an invocation whose OCR gave
\* fragments f1..fk makes no LLM call, sends exactly one update with the
\* joined fragments and the first fragment cut to 80 characters, and responds
\* 200 with the document id.
C10_AlwaysUpdatesAnd200 ==
    \A r \in Reqs :
        LET v == inv[r]
            fs == Fragments(v.page_texts)
        IN  (Done(v) /\ ~LLM_ENABLED /\ v.ocr = "ok" /\ Len(fs) >= 1
                /\ ~UpdateNotSent(v)) =>
              /\ ~Sent(v, "LLM_FORMAT") /\ ~Sent(v, "LLM_TITLE")
              /\ Cardinality(CallsOf(v, "PATCH")) = 1
              /\ \A i \in CallsOf(v, "PATCH") :
                   /\ v.calls[i].text = JoinedByNewline(fs)
                   /\ v.calls[i].title = Some(FirstChars(fs[1], 80))
              /\ v.status = 200
              /\ v.resp_doc_id = Some(RequestedId(v.body.val))

\* C10: with LLM disabled, an invocation for document d whose OCR gave the
\* fragments f1..fk makes no LLM call and sends at most one update, exactly
\* one unless the HTTP client was closed or cleared before the update; the
\* update is for d, its content is the fragments joined by newline in order
\* and its title the first fragment cut to 80 characters (none when k = 0);
\* the response is 200 with doc_id = d exactly when the update returned 2xx,
\* 502 when it returned a non-2xx status, and 500 otherwise.
C10_LlmDisabledEndToEnd ==
    \A r \in Reqs :
        LET v == inv[r]
            fs == Fragments(v.page_texts)
            d == RequestedId(v.body.val)
        IN  (~LLM_ENABLED /\ v.ocr = "ok") =>
              /\ ~Sent(v, "LLM_FORMAT") /\ ~Sent(v, "LLM_TITLE")
              /\ Cardinality(CallsOf(v, "PATCH")) <= 1
              /\ ~Sent(v, "PATCH") => v.upd \in {"not_ready", "closed"}
              /\ \A i \in CallsOf(v, "PATCH") :
                   /\ v.calls[i].doc_id = d
                   /\ v.calls[i].text = JoinedByNewline(fs)
                   /\ v.calls[i].title =
                        IF Len(fs) >= 1 THEN Some(FirstChars(fs[1], 80)) ELSE None
              /\ Done(v) =>
                   /\ v.status = StatusOfUpdate(v.upd)
                   /\ v.status = 200 => v.resp_doc_id = Some(d)

\* two pages, three fragments, the first longer than 80 characters: 200
C10_Witness ==
    \E r \in Reqs :
        /\ ~LLM_ENABLED /\ Done(inv[r]) /\ inv[r].status = 200
        /\ inv[r].pages = 2 /\ Len(inv[r].texts) = 3
        /\ Len(inv[r].texts[1]) > 80
        /\ Len(inv[r].page_texts[2]) = 1

\* ------------------------------------------------------------------------
\* Concurrency of the handlers

\* the invocation waits for a response it has asked for
Awaiting(v) ==
    v.pc \in {"await_json", "await_get", "await_fmt", "await_title", "await_patch"}

\* the next step of invocation q, whatever the environment answers
StepOf(q) ==
    \/ BodyReceived(q)
    \/ \E resp \in DownloadResponses : GetReturns(q, resp)
    \/ \E resp \in LlmResponsesIn(world) : FormatReturns(q, resp)
    \/ \E resp \in LlmResponsesIn(world) : TitleReturns(q, resp)
    \/ \E kind \in UpdateResponses : PatchReturns(q, kind)

InOcr(v) == v.pc = "ocr"

\* C11: while one invocation is inside its rasterization or OCR stage, every
\* other invocation that waits for a response can take its next step, and a
\* /healthz request can be answered.
C11_OcrDoesNotBlock ==
    \A r \in Reqs :
        InOcr(inv[r]) =>
            /\ \A q \in Reqs \ {r} : Awaiting(inv[q]) => ENABLED StepOf(q)
            /\ hz.pc = "idle" => ENABLED Healthz

\* ------------------------------------------------------------------------
CallKinds == {"GET", "LLM_FORMAT", "LLM_TITLE", "PATCH"}

\* C12: within one invocation each outbound call (download GET, formatting
\* LLM request, title LLM request, update PATCH) is issued at most once,
\* whichever of them fail.
C12_NoRetry ==
    \A r \in Reqs : \A kind \in CallKinds :
        Cardinality(CallsOf(inv[r], kind)) <= 1

\* both LLM calls and the update failed, and four calls were sent in all
C12_Witness ==
    \E r \in Reqs :
        LET v == inv[r]
        IN  /\ Done(v) /\ v.fmt = "failed" /\ v.ttl = "failed" /\ v.upd = "error"
            /\ Len(v.calls) = 4
            /\ \A kind \in CallKinds : Cardinality(CallsOf(v, kind)) = 1

\* ------------------------------------------------------------------------
\* a body from which a document id can be extracted
HasId(body) ==
    body.kind = "object" /\ ~NotDocId(_extract_doc_id(DocUrlOf(body)))

\* C13 as stated: with the backend base URL or the API token missing, every
\* request with an extractable id ends with 500 and sends neither the
\* download GET nor the update PATCH.
C13_ConfigMissingIs500 ==
    \A r \in Reqs :
        LET v == inv[r]
        IN  (ConfigMissing /\ Done(v) /\ v.body.some /\ HasId(v.body.val)) =>
              v.status = 500 /\ ~Sent(v, "GET") /\ ~Sent(v, "PATCH")

\* C13: with the backend base URL or the API token missing, a request with
\* an extractable id sends no outbound request at all and ends with 500 when
\* the HTTP client was initialized on arrival and with 503 when it was not;
\* the startup hook still runs to its end and /healthz is still answered.
C13_ConfigMissingNoBackendCall ==
    ConfigMissing =>
        /\ \A r \in Reqs :
              LET v == inv[r]
              IN  (v.body.some /\ HasId(v.body.val)) =>
                    /\ v.calls = <<>>
                    /\ Done(v) => v.status = (IF v.ready THEN 500 ELSE 503)
        /\ life = "init" => ENABLED StartupBegin
        /\ life = "startup_await" => ENABLED StartupEnd
        /\ hz.pc = "idle" => ENABLED Healthz

\* the process is up without a token and has answered a request for
\* document 12 with 500 and a /healthz request with 200
C13_Witness ==
    \E r \in Reqs :
        LET v == inv[r]
        IN  /\ PAPERLESS_API_TOKEN = "" /\ PAPERLESS_BASE_URL # ""
            /\ life = "up" /\ hz.status = 200
            /\ Done(v) /\ v.status = 500 /\ v.dl = "config"
            /\ v.doc_id = Some(12)

\* ------------------------------------------------------------------------
\* the position of the handler, in the order of the handler's text
StageRank(pc) ==
    CASE pc \in {"unused", "idle"} -> 0
      [] pc = "await_json" -> 1
      [] pc = "await_get" -> 2
      [] pc = "ocr" -> 3
      [] pc = "await_fmt" -> 4
      [] pc = "await_title" -> 5
      [] pc = "await_patch" -> 6
      [] pc = "done" -> 7

KindRank(kind) ==
    CASE kind = "GET" -> 1
      [] kind = "LLM_FORMAT" -> 2
      [] kind = "LLM_TITLE" -> 3
      [] kind = "PATCH" -> 4

StagesInOrder(v) ==
    \* the calls were sent in the order GET, format, title, PATCH
    /\ \A i, j \in 1..Len(v.calls) :
          i < j => KindRank(v.calls[i].kind) < KindRank(v.calls[j].kind)
    \* the download and the rasterizer are over before any OCR
    /\ (v.ocr # "none" \/ v.page_texts # <<>>) => v.dl = "ok" /\ v.rast = "ok"
    \* every page is OCRed before the formatting stage
    /\ v.fmt # "none" =>
          v.ocr = "ok" /\ v.pages_left = 0 /\ Len(v.page_texts) = v.pages
          /\ v.assembled.some
    \* the formatting call has returned before the title stage
    /\ v.ttl # "none" => v.fmt \notin {"none", "sent"}
    \* the title call has returned before the update
    /\ v.upd # "none" => v.ttl \notin {"none", "sent"}
    /\ Done(v) => v.upd # "sent"
    \* the title stage gets the formatter's text if there is one, else the
    \* assembled content, and sends the first 4000 characters of it
    /\ v.ttl # "none" =>
          LET given == IF Truthy(v.fmt_out) THEN v.fmt_out.val ELSE v.assembled.val
          IN  /\ v.content = given
              /\ \A i \in CallsOf(v, "LLM_TITLE") :
                    v.calls[i].text = Take(given, LLM_INPUT_CHAR_LIMIT)

NoStepBack == \A r \in Reqs : StageRank(inv'[r].pc) >= StageRank(inv[r].pc)

\* C14: the stages of one invocation come in the order download,
\* rasterization, OCR of every page, assembly, formatting call, title call,
\* update, response, with no step back to an earlier stage; the title call
\* is given the formatted content when the formatter returned one and the
\* assembled content otherwise.
C14_StageOrder ==
    /\ [](\A r \in Reqs : StagesInOrder(inv[r]))
    /\ [][NoStepBack]_vars

\* an invocation over two pages that sent all four calls, whose formatter
\* output was accepted and handed to the title call
C14_Witness ==
    \E r \in Reqs :
        LET v == inv[r]
        IN  /\ Done(v) /\ v.status = 200 /\ v.pages = 2
            /\ [i \in 1..Len(v.calls) |-> v.calls[i].kind]
                   = <<"GET", "LLM_FORMAT", "LLM_TITLE", "PATCH">>
            /\ Truthy(v.fmt_out) /\ v.fmt_out.val # v.assembled.val
            /\ v.calls[3].text = v.fmt_out.val

\* ------------------------------------------------------------------------
LlmGatedOff == ~LLM_ENABLED \/ LLM_API_KEY = ""

FormatterGatedOff(v) ==
    \/ LlmGatedOff
    \/ ~LLM_FORMAT_CONTENT
    \/ v.assembled.some /\ Strip(v.assembled.val) = <<>>

\* C15: with the LLM flag off or the API key empty neither LLM stage sends a
\* request; the formatter also sends none with the formatting flag off or
\* with assembled content that is empty after trimming; in all these cases
\* the content of the update is exactly the assembled content.
C15_LlmGating ==
    \A r \in Reqs :
        LET v == inv[r]
        IN  /\ LlmGatedOff => ~Sent(v, "LLM_FORMAT") /\ ~Sent(v, "LLM_TITLE")
            /\ FormatterGatedOff(v) =>
                  /\ ~Sent(v, "LLM_FORMAT")
                  /\ v.fmt \in {"none", "off", "nokey", "empty"}
                  /\ \A i \in CallsOf(v, "PATCH") :
                        v.calls[i].text = v.assembled.val

\* the flags are on and the key is empty: the update carries the assembled
\* content of two pages and no LLM request was sent
C15_Witness ==
    \E r \in Reqs :
        LET v == inv[r]
        IN  /\ LLM_ENABLED /\ LLM_FORMAT_CONTENT /\ LLM_API_KEY = ""
            /\ v.fmt = "nokey" /\ v.ttl = "nokey"
            /\ Sent(v, "PATCH") /\ Len(v.calls) = 2
            /\ v.pages = 2 /\ Len(v.assembled.val) > 0
            /\ v.calls[2].text = v.assembled.val

\* the formatting flag alone is off: the title request is sent, the
\* formatting request is not
C15_WitnessFormatOff ==
    \E r \in Reqs :
        LET v == inv[r]
        IN  /\ LLM_ENABLED /\ ~LLM_FORMAT_CONTENT /\ LLM_API_KEY # ""
            /\ v.fmt = "off" /\ Sent(v, "LLM_TITLE") /\ Sent(v, "PATCH")

\* ------------------------------------------------------------------------
\* C16: the content sent in the update is either exactly the assembled
\* content, or a formatter output that was accepted and whose length is at
\* least half and at most twice the length of the trimmed assembled content,
\* whatever the length of the assembled content.
C16_ContentIntegrity ==
    \A r \in Reqs :
        LET v == inv[r]
            n == Len(Strip(v.assembled.val))
        IN  \A i \in CallsOf(v, "PATCH") :
              LET c == v.calls[i].text
              IN  \/ c = v.assembled.val
                  \/ /\ Truthy(v.fmt_out) /\ c = v.fmt_out.val
                     /\ 2 * Len(c) >= n /\ Len(c) <= 2 * n

\* ------------------------------------------------------------------------
\* the update for document d was sent and came back with a 2xx status
UpdatedOk(v, d) ==
    /\ v.upd = "ok"
    /\ \E i \in CallsOf(v, "PATCH") : v.calls[i].doc_id = d

\* C17: the response is 200 {"status": "ok", "doc_id": d} if and only if the
\* update for that document id d was sent in this invocation and returned a
\* 2xx status; an update answered with a non-2xx status gives 502, never a
\* success response.
C17_SuccessIffUpdated ==
    \A r \in Reqs :
        LET v == inv[r]
        IN  /\ Done(v) =>
                  /\ v.status = 200 <=> (v.doc_id.some /\ UpdatedOk(v, v.doc_id.val))
                  /\ v.status = 200 =>
                        /\ v.resp_doc_id = v.doc_id
                        /\ v.doc_id = Some(RequestedId(v.body.val))
                  /\ v.status # 200 => v.resp_doc_id = None
                  /\ v.upd = "non2xx" => v.status = 502
            /\ v.upd \in {"ok", "non2xx"} => Done(v)

\* a request for document 12 answered 200 after its update returned 2xx
C17_Witness ==
    \E r \in Reqs :
        LET v == inv[r]
        IN  /\ Done(v) /\ v.status = 200 /\ v.resp_doc_id = Some(12)
            /\ UpdatedOk(v, 12)

\* a request whose update was answered with a non-2xx status: 502
C17_WitnessNon2xx ==
    \E r \in Reqs : Done(inv[r]) /\ inv[r].upd = "non2xx" /\ inv[r].status = 502

\* ------------------------------------------------------------------------
\* OCR found no text on any page: every page gave no line with text, the
\* last one possibly as the engine's result for a page where nothing was
\* detected (None in place of the list of lines)
NoTextOnAnyPage(v) ==
    /\ v.dl = "ok" /\ v.rast = "ok" /\ v.texts = <<>>
    /\ \/ v.ocr = "ok"
       \/ v.ocr = "failed" /\ v.exc = "TypeError" /\ v.pages_left = 1

\* C18 as stated, for an invocation whose update did not itself fail: when
\* OCR finds no text on any page the invocation sends no LLM request, sends
\* the update with the empty string as content and without a title, and
\* responds 200.
C18_EmptyOcrSucceeds ==
    \A r \in Reqs :
        LET v == inv[r]
        IN  (Done(v) /\ NoTextOnAnyPage(v) /\ v.upd \in {"none", "ok"}) =>
              /\ ~Sent(v, "LLM_FORMAT") /\ ~Sent(v, "LLM_TITLE")
              /\ \E i \in CallsOf(v, "PATCH") :
                    v.calls[i].text = <<>> /\ v.calls[i].title = None
              /\ v.status = 200

\* ------------------------------------------------------------------------
LifeRank(l) ==
    CASE l = "init" -> 0
      [] l = "startup_await" -> 1
      [] l = "up" -> 2
      [] l = "shutdown_await" -> 3
      [] l = "down" -> 4

\* a step changes the shared references only in the hooks: the client is
\* set by _startup, closed and cleared by _shutdown, the engine is set by
\* _startup, and each hook runs once
SharedFrame ==
    /\ LifeRank(life') >= LifeRank(life)
    /\ client' # client =>
          \/ life = "init" /\ life' = "startup_await"
               /\ client = "None" /\ client' = "open"
          \/ life = "up" /\ life' = "shutdown_await" /\ client' = "closed"
          \/ life = "shutdown_await" /\ life' = "down" /\ client' = "None"
    /\ ocr_engine' # ocr_engine =>
          /\ life = "startup_await" /\ life' = "up"
          /\ ocr_engine = "None" /\ ocr_engine' = "ready"
    \* no step of a webhook invocation or of /healthz touches them
    /\ (inv' # inv \/ hz' # hz) =>
          client' = client /\ ocr_engine' = ocr_engine /\ life' = life
    \* a step of one invocation leaves the other invocation and /healthz alone
    /\ \A r \in Reqs :
          inv'[r] # inv[r] =>
              /\ hz' = hz
              /\ \A q \in Reqs \ {r} : inv'[q] = inv[q]

\* everything an invocation sends and answers is made from its own request,
\* its own download and OCR, and its own LLM completions
OwnData(v) ==
    /\ v.calls # <<>> =>
          /\ v.doc_id = Some(RequestedId(v.body.val))
          /\ \A i \in 1..Len(v.calls) : v.calls[i].doc_id = v.doc_id.val
    /\ v.texts = Fragments(v.page_texts)
    /\ v.assembled.some => v.assembled.val = _build_content(v.texts)
    /\ Truthy(v.fmt_out) => v.fmt_resp.some /\ v.fmt_out.val = Strip(v.fmt_resp.val)
    /\ Truthy(v.ttl_out) =>
          /\ v.ttl_resp.some
          /\ v.ttl_out.val = Take(Strip(v.ttl_resp.val), MAX_TITLE_LENGTH)
    /\ \A i \in CallsOf(v, "PATCH") :
          /\ v.calls[i].text =
                IF Truthy(v.fmt_out) THEN v.fmt_out.val ELSE v.assembled.val
          /\ v.calls[i].title =
                IF Truthy(v.ttl_out) THEN v.ttl_out
                ELSE IF Truthy(_build_title(v.texts)) THEN _build_title(v.texts)
                ELSE None
    /\ v.status = 200 => v.resp_doc_id = v.doc_id

\* C19: no webhook invocation and no /healthz request changes the shared
\* HTTP client or OCR engine; only startup sets them, each once, and only
\* shutdown clears the client; what an invocation sends and answers is made
\* from its own data, never from another invocation's.
C19_SharedStateFrame ==
    /\ [][SharedFrame]_vars
    /\ [](\A r \in Reqs : OwnData(inv[r]))

\* two invocations for different documents are in flight at once, one
\* waiting for its update and one for its formatting call, /healthz was
\* answered, and shutdown has begun and closed the client
C19_Witness ==
    /\ life = "shutdown_await" /\ client = "closed" /\ ocr_engine = "ready"
    /\ hz.status = 200
    /\ inv["r1"].pc = "await_patch" /\ inv["r1"].doc_id = Some(7)
    /\ inv["r2"].pc = "await_fmt" /\ inv["r2"].doc_id = Some(12)
    /\ inv["r1"].pages = 2 /\ inv["r2"].pages = 1
    /\ inv["r1"].assembled # inv["r2"].assembled

\* ------------------------------------------------------------------------
\* a step that answers /healthz answers 200 {"status": "ok"} and changes
\* nothing else: no shared reference, no invocation, no call sent
HealthzFrame ==
    hz' # hz =>
        /\ hz.pc = "idle"
        /\ hz' = [pc |-> "done", status |-> 200, body |-> "ok"]
        /\ UNCHANGED <<config, client, ocr_engine, life, loop, inv>>

\* C20: GET /healthz is answered with 200 {"status": "ok"} whether or not
\* the HTTP client and the OCR engine are initialized, changes no state and
\* sends no outbound call.
C20_HealthzAlwaysOk ==
    /\ [][HealthzFrame]_vars
    /\ [](hz.pc = "done" => hz.status = 200 /\ hz.body = "ok")
    /\ [](hz.pc = "idle" /\ loop = NoOne => ENABLED Healthz)

\* /healthz was answered 200 before startup, with neither the client nor
\* the engine there
C20_Witness ==
    /\ hz.pc = "done" /\ hz.status = 200
    /\ life = "init" /\ client = "None" /\ ocr_engine = "None"
====
